---- MODULE Spec2Model ----
(***************************************************************************)
(* Slot availability and booking flow of the salon booking application     *)
(* (src/app.py).                                                           *)
(*                                                                         *)
(* Specifications                                                          *)
(*   - Spec: one call of generar_slots, then of filter_future_slots;       *)
(*   - SpecOverlapTest, SpecLookup, SpecCalc, SpecUnique: one call of the  *)
(*     overlap test, of the lookup of the weekly table, of calc_duracion   *)
(*     and calc_precio, of the de-duplication;                             *)
(*   - SpecBooking: two sessions of the booking flow on one table turnos.  *)
(*                                                                         *)
(* Representation                                                          *)
(*   - a str is a sequence of one-character strings: "09:00" is            *)
(*     <<"0","9",":","0","0">>;                                            *)
(*   - a datetime.date is its proleptic ordinal (date.toordinal()), so     *)
(*     ordinal 1 is a Monday and isoweekday is (ordinal % 7 or 7);         *)
(*   - a datetime.time with zero seconds is its minute of the day;         *)
(*   - a datetime with zero seconds is ordinal * 1440 + minute of the day; *)
(*   - an Optional value is a sequence of length 0 (None) or 1;            *)
(*   - the outcome of a call that may raise is a record                    *)
(*     [raised |-> BOOLEAN, value |-> ...].                                *)
(***************************************************************************)
EXTENDS Integers, Sequences, FiniteSets, TLC

VARIABLES date_obj, dur_min, slot_step_min, turnos_df, now, slots_all, slots, pc,
          args, ret,
          booking, store, shown, clock

\* one call of generar_slots and filter_future_slots (lines 523-525)
slotVars == <<date_obj, dur_min, slot_step_min, turnos_df, now, slots_all, slots>>

\* the arguments and the result of one call of a function
callVars == <<args, ret>>

\* the booking flow: st.session_state["booking"] of each session, the table
\* turnos of the store, the slots of each session's last rendering of the
\* pick_time step, and the wall clock
flowVars == <<booking, store, shown, clock>>

vars == <<slotVars, pc, callVars, flowVars>>

(***************************************************************************)
(* Bounds of the model.                                                    *)
(***************************************************************************)
\* dates are the ordinals 1..MaxDay (1 = a Monday, 7 = a Sunday)
MaxDay == 7
\* the appointment table holds at most MaxTurnos rows
MaxTurnos == 2

(***************************************************************************)
(* Program constants.                                                      *)
(***************************************************************************)
SLOT_STEP_MIN == 10
BUFFER_MIN_DEFAULT == 5

MinutesPerDay == 24 * 60

\* the time strings of the weekly table
S0900 == <<"0", "9", ":", "0", "0">>
S1300 == <<"1", "3", ":", "0", "0">>
S1400 == <<"1", "4", ":", "0", "0">>
S1500 == <<"1", "5", ":", "0", "0">>
S1700 == <<"1", "7", ":", "0", "0">>

\* DEFAULT_DISPONIBILIDAD_CODE: weekday (1 = Monday) -> windows; 7 has no key
DEFAULT_DISPONIBILIDAD_CODE ==
    (1 :> << <<S0900, S1300>>, <<S1400, S1700>> >>) @@
    (2 :> << <<S0900, S1700>> >>) @@
    (3 :> << <<S0900, S1700>> >>) @@
    (4 :> << <<S0900, S1700>> >>) @@
    (5 :> << <<S0900, S1500>> >>) @@
    (6 :> << <<S0900, S1500>> >>)

(***************************************************************************)
(* Strings and numbers.                                                    *)
(***************************************************************************)
Digits == {"0", "1", "2", "3", "4", "5", "6", "7", "8", "9"}

DigitVal(c) ==
    CASE c = "0" -> 0 [] c = "1" -> 1 [] c = "2" -> 2 [] c = "3" -> 3
      [] c = "4" -> 4 [] c = "5" -> 5 [] c = "6" -> 6 [] c = "7" -> 7
      [] c = "8" -> 8 [] c = "9" -> 9

\* str.strip() for the blank character
RECURSIVE LStrip(_)
LStrip(s) == IF s # <<>> /\ Head(s) = " " THEN LStrip(Tail(s)) ELSE s

RECURSIVE RStrip(_)
RStrip(s) ==
    IF s # <<>> /\ s[Len(s)] = " " THEN RStrip(SubSeq(s, 1, Len(s) - 1)) ELSE s

Strip(s) == RStrip(LStrip(s))

\* value of a non-empty run of decimal digits
RECURSIVE DigitsVal(_)
DigitsVal(x) ==
    IF x = <<>> THEN 0
    ELSE 10 * DigitsVal(SubSeq(x, 1, Len(x) - 1)) + DigitVal(x[Len(x)])

\* int(x) for a str: the digits, blanks around them allowed; None stands for
\* the ValueError
int_of_stripped(y) ==
    IF y # <<>> /\ \A i \in 1..Len(y) : y[i] \in Digits
    THEN <<DigitsVal(y)>>
    ELSE <<>>

IntOf(x) == int_of_stripped(Strip(x))

\* index of the first ":" of s at or after position p, Len(s) + 1 when none
RECURSIVE ColonFrom(_, _)
ColonFrom(s, p) ==
    IF p > Len(s) THEN Len(s) + 1
    ELSE IF s[p] = ":" THEN p ELSE ColonFrom(s, p + 1)

\* line 71: time(int(hh), int(mm)), None for the exception of int or of time
time_of(hh, mm) ==
    IF hh = <<>> \/ mm = <<>> THEN <<>>
    ELSE IF hh[1] \in 0..23 /\ mm[1] \in 0..59 THEN <<hh[1] * 60 + mm[1]>>
    ELSE <<>>

\* line 70: hh, mm = s.split(":")[:2], the first ":" of s being at i
split_time(s, i) ==
    time_of(IntOf(SubSeq(s, 1, i - 1)),
            IntOf(SubSeq(s, i + 1, ColonFrom(s, i + 1) - 1)))

\* lines 66-73, s the stripped string
to_time_stripped(s) ==
    IF s = <<>> \/ ColonFrom(s, 1) > Len(s) THEN <<>>
    ELSE split_time(s, ColonFrom(s, 1))

\* to_time(hhmm): Optional minute of the day
to_time(hhmm) == to_time_stripped(Strip(hhmm))

\* datetime.strptime(s, "%H:%M").time(): Optional minute of the day, None for
\* the ValueError.  %H is the regex 2[0-3]|[0-1]\d|\d, %M is [0-5]\d|\d, the
\* first match in that order is taken and must consume the whole string.

\* end of the match of ":%M" when the ":" is at position p of s, 0 for none
MEnd(s, p) ==
    IF Len(s) >= p + 1 /\ s[p] = ":" /\ s[p + 1] \in Digits
    THEN IF Len(s) >= p + 2 /\ s[p + 1] \in {"0", "1", "2", "3", "4", "5"}
                             /\ s[p + 2] \in Digits
         THEN p + 2
         ELSE p + 1
    ELSE 0

\* s starts with a two-character match of %H
H2(s) ==
    Len(s) >= 2 /\ ( (s[1] = "2" /\ s[2] \in {"0", "1", "2", "3"})
                     \/ (s[1] \in {"0", "1"} /\ s[2] \in Digits) )

\* s starts with a one-character match of %H
H1(s) == Len(s) >= 1 /\ s[1] \in Digits

\* length of the text %H matches in the first match of the regex, 0 for none
HLen(s) ==
    IF H2(s) /\ MEnd(s, 3) # 0 THEN 2
    ELSE IF H1(s) /\ MEnd(s, 2) # 0 THEN 1
    ELSE 0

\* the time of a match of %H of length hlen that ends at mend
strptime_fields(s, hlen, mend) ==
    IF hlen = 0 \/ mend # Len(s) THEN <<>>
    ELSE <<DigitsVal(SubSeq(s, 1, hlen)) * 60
             + DigitsVal(SubSeq(s, hlen + 2, mend))>>

strptime_match(s, hlen) == strptime_fields(s, hlen, MEnd(s, hlen + 1))

strptime_HM(s) == strptime_match(s, HLen(s))

(***************************************************************************)
(* Dates and datetimes.                                                    *)
(***************************************************************************)
\* faulty variant: date.weekday() (Monday = 0) taken for date.isoweekday()
isoweekday_as_weekday(d) == (d - 1) % 7

\* date.isoweekday(): toordinal() % 7 or 7
isoweekday(d) == IF d % 7 = 0 THEN 7 ELSE d % 7

\* datetime.combine(date, time)
combine(d, t) == d * MinutesPerDay + t
\* faulty variant: the second comparison against start1 instead of end1
overlaps_start_typo(start1, end1, start2, end2) ==
    (start1 < end2) /\ (start2 < start1)

overlaps(start1, end1, start2, end2) == (start1 < end2) /\ (start2 < end1)

(***************************************************************************)
(* generar_slots.                                                          *)
(***************************************************************************)
\* the outcomes of a call: a returned value, an exception
Returned(v) == [raised |-> FALSE, value |-> v]
Raised == [raised |-> TRUE, value |-> <<>>]

\* lines 257-264: t_start and t_end from the two parsed times; the ValueError
\* of either strptime is the exception of the try block
combine_parsed(a, b, d) ==
    IF a = <<>> \/ b = <<>> THEN Raised
    ELSE Returned(<<combine(d, a[1]), combine(d, b[1])>>)

parse_turno(t, d) ==
    combine_parsed(strptime_HM(t.inicio), strptime_HM(t.fin), d)
\* faulty variant: no except clause, the ValueError leaves the function
blocks_parsed_no_except(p, c_start, c_end) ==
    IF p.raised THEN Raised
    ELSE Returned(overlaps(c_start - BUFFER_MIN_DEFAULT,
                           c_end + BUFFER_MIN_DEFAULT,
                           p.value[1], p.value[2]))

\* faulty variant: the candidate tested without the buffer
blocks_parsed_no_buffer(p, c_start, c_end) ==
    IF p.raised THEN Returned(FALSE)
    ELSE Returned(overlaps(c_start, c_end, p.value[1], p.value[2]))

\* lines 256-269 for one row, p the outcome of its try block: the except
\* clause (continue) and the overlap test.  The value is TRUE when the row
\* sets ok to False
blocks_parsed(p, c_start, c_end) ==
    IF p.raised THEN Returned(FALSE)
    ELSE Returned(overlaps(c_start - BUFFER_MIN_DEFAULT,
                           c_end + BUFFER_MIN_DEFAULT,
                           p.value[1], p.value[2]))

turno_blocks(t, c_start, c_end, d) ==
    blocks_parsed(parse_turno(t, d), c_start, c_end)

\* lines 255-269 after the row with outcome b: an exception leaves the
\* function, a blocking row breaks with ok False, else the next row
after_turno(b, next_rows) ==
    IF b.raised THEN Raised
    ELSE IF b.value THEN Returned(FALSE)
    ELSE next_rows

\* lines 253-269: ok of one candidate; loop[i] visits the rows i.. of activos
candidate_ok(activos, c_start, c_end, d) ==
    LET loop[i \in Nat] ==
            IF i > Len(activos) THEN Returned(TRUE)
            ELSE after_turno(turno_blocks(activos[i], c_start, c_end, d),
                             loop[i + 1])
    IN  loop[1]
\* faulty variant: < for <=
while_cond_strict(current, dur, end_window) == current + dur < end_window

\* faulty variant: the duration left out
while_cond_no_dur(current, dur, end_window) == current <= end_window

\* line 251: the condition of the while loop
while_cond(current, dur, end_window) == current + dur <= end_window

\* line 251: the number of times the while loop runs, the first k for which
\* the condition fails at start_dt + k * step; a window lies within one day
\* and step is at least one minute
iterations(start_dt, end_window, dur, step) ==
    CHOOSE k \in 0..MinutesPerDay :
        /\ ~while_cond(start_dt + k * step, dur, end_window)
        /\ \A j \in 0..(k - 1) : while_cond(start_dt + j * step, dur, end_window)

\* lines 252-269 for the k-th candidate of the loop: c_start and its ok
candidate(k, start_dt, dur, step, activos, d) ==
    [c_start |-> start_dt + (k - 1) * step,
     ok |-> candidate_ok(activos, start_dt + (k - 1) * step,
                         start_dt + (k - 1) * step + dur, d)]

\* lines 251-272: the candidates of the loop that are appended or raise
appended(n, start_dt, dur, step, activos, d) ==
    SelectSeq([k \in 1..n |-> candidate(k, start_dt, dur, step, activos, d)],
              LAMBDA c : c.ok.raised \/ c.ok.value)
\* faulty variant: result.insert(0, c_start) for result.append(c_start)
after_candidates_prepend(cs, result0) ==
    IF \E i \in DOMAIN cs : cs[i].ok.raised THEN Raised
    ELSE Returned([i \in DOMAIN cs |-> cs[Len(cs) + 1 - i].c_start] \o result0)

\* lines 270-272: result.append(c_start) for each candidate in cs, in order;
\* an exception leaves the function
after_candidates(cs, result0) ==
    IF \E i \in DOMAIN cs : cs[i].ok.raised THEN Raised
    ELSE Returned(result0 \o [i \in DOMAIN cs |-> cs[i].c_start])

\* lines 250-272: the while loop of one window, result0 the list so far
window_slots(start_dt, end_window, dur, step, activos, d, result0) ==
    after_candidates(
        appended(iterations(start_dt, end_window, dur, step),
                 start_dt, dur, step, activos, d),
        result0)

\* lines 248-272 for a window with parsed bounds ti and tf
window_of(ti, tf, dur, step, activos, d, result) ==
    window_slots(combine(d, ti[1]), combine(d, tf[1]), dur, step, activos, d,
                 result)

\* the list after a window with outcome w
after_window(w, result_of) ==
    IF w.raised THEN Raised ELSE result_of[w.value]

\* lines 244-272: the loop over tramos; loop[k, result] visits the windows k..
tramos_slots(tramos, dur, step, activos, d) ==
    LET loop[k \in Nat, result \in Seq(Int)] ==
            IF k > Len(tramos) THEN Returned(result)
            ELSE IF to_time(tramos[k][1]) = <<>> \/ to_time(tramos[k][2]) = <<>>
            THEN loop[k + 1, result]
            ELSE after_window(
                     window_of(to_time(tramos[k][1]), to_time(tramos[k][2]),
                               dur, step, activos, d, result),
                     [r \in Seq(Int) |-> loop[k + 1, r]])
    IN  loop[1, <<>>]

\* faulty variant: the elements after result[i], the last occurrence is kept
seen_at_later(result, i) == { result[j] : j \in (i + 1)..Len(result) }

\* line 276: the keys of seen when the comprehension reaches result[i], the
\* elements before it
seen_at(result, i) == { result[j] : j \in 1..(i - 1) }

\* line 276: the indices of the elements x of result with x not in seen
first_indices(result) ==
    SelectSeq([i \in DOMAIN result |-> i],
              LAMBDA i : result[i] \notin seen_at(result, i))

\* line 276: seen.setdefault(x, x), which is x, for the element at each index
at_indices(result, indices) == [k \in DOMAIN indices |-> result[indices[k]]]

\* lines 275-276: the first occurrence of each element, in order
unique_in_order(result) == at_indices(result, first_indices(result))
\* faulty variant: the negation of isin left out
activos_of_not_negated(turnos, d) ==
    IF turnos = <<>> THEN <<>>
    ELSE SelectSeq(turnos,
                   LAMBDA t : t.fecha = d /\ t.estado \in {"Cancelado"})

\* faulty variant: the former rule, Cancelado, No-show and Realizado free the time
activos_of_former_rule(turnos, d) ==
    IF turnos = <<>> THEN <<>>
    ELSE SelectSeq(turnos,
                   LAMBDA t : t.fecha = d
                              /\ t.estado \notin {"Cancelado", "No-show", "Realizado"})

\* lines 230-237: the rows of the date that are not Cancelado
activos_of(turnos, d) ==
    IF turnos = <<>> THEN <<>>
    ELSE SelectSeq(turnos,
                   LAMBDA t : t.fecha = d /\ t.estado \notin {"Cancelado"})

\* line 226: DEFAULT_DISPONIBILIDAD_CODE.get(weekday, [])
tramos_of(weekday) ==
    IF weekday \in DOMAIN DEFAULT_DISPONIBILIDAD_CODE
    THEN DEFAULT_DISPONIBILIDAD_CODE[weekday]
    ELSE <<>>
\* faulty variant: < for <=
dur_guard_negative_only(dur) == dur < 0

\* lines 223-224: the duration guard
dur_guard(dur) == dur <= 0

\* lines 274-276 on the outcome r of the loops
unique_result(r) ==
    IF r.raised THEN Raised ELSE Returned(unique_in_order(r.value))

\* lines 227-276 with the windows of the weekday
slots_of_tramos(tramos, d, dur, turnos, step) ==
    IF tramos = <<>> THEN Returned(<<>>)
    ELSE unique_result(tramos_slots(tramos, dur, step, activos_of(turnos, d), d))

generar_slots(d, dur, turnos, step) ==
    IF dur_guard(dur) THEN Returned(<<>>)
    ELSE slots_of_tramos(tramos_of(isoweekday(d)), d, dur, turnos, step)

(***************************************************************************)
(* filter_future_slots.  now is datetime.now(): a date, a minute of the    *)
(* day and sub, 1 when its seconds or microseconds are not zero.           *)
(***************************************************************************)
\* faulty variant: >= for >
slot_after_or_equal(s, n) == s >= combine(n.date, n.minute)

\* s > now for a slot s (seconds zero)
slot_after(s, n) ==
    \/ s > combine(n.date, n.minute)
    \/ (s = combine(n.date, n.minute) /\ 0 > n.sub)

filter_future_slots(d, ss, n) ==
    IF ss = <<>> THEN <<>>
    ELSE IF d = n.date THEN SelectSeq(ss, LAMBDA s : slot_after(s, n))
    ELSE ss

(***************************************************************************)
(* Inputs.                                                                 *)
(***************************************************************************)
Dates == 1..MaxDay

\* the requests <<dur_min, slot_step_min>>: a negative and a zero duration,
\* the booking flow's step with a short service, and a step that does not
\* divide the windows with a service as long as the Monday morning
Requests ==
    { <<0 - 10, SLOT_STEP_MIN>>, <<0, SLOT_STEP_MIN>>,
      <<30, SLOT_STEP_MIN>>, <<240, 25>> }

S1000 == <<"1", "0", ":", "0", "0">>
S1030 == <<"1", "0", ":", "3", "0">>
S1240 == <<"1", "2", ":", "4", "0">>
S1420 == <<"1", "4", ":", "2", "0">>
S2500 == <<"2", "5", ":", "0", "0">>
Sabc  == <<"a", "b", "c">>

Estados == {"Confirmado", "Reprogramado", "Cancelado", "No-show", "Realizado"}

Turno(f, i, e, st) == [fecha |-> f, inicio |-> i, fin |-> e, estado |-> st]

\* the rows an appointment table may hold when the requested date is d
TurnoRows(d) ==
    { Turno(d, S1000, S1030, "Confirmado"),
      Turno(d, S1000, S1030, "Cancelado"),
      Turno(d, S1000, S1030, "Realizado"),
      Turno(d, S1240, S1420, "No-show"),
      Turno(d, S1240, S1420, "Reprogramado"),
      Turno(d + 1, S1000, S1030, "Confirmado"),
      Turno(d, S1000, S2500, "Confirmado"),
      Turno(d, Sabc, S1030, "Confirmado") }

SeqsUpTo(S, n) == UNION { [1..k -> S] : k \in 0..n }

\* the readings of the clock: 09:00:00 sharp, 14:05:00 sharp, after 14:10:00
NowClocks ==
    { [minute |-> 9 * 60, sub |-> 0],
      [minute |-> 14 * 60 + 5, sub |-> 0],
      [minute |-> 14 * 60 + 10, sub |-> 1] }

(***************************************************************************)
(* The state machine: one call of generar_slots, then one call of          *)
(* filter_future_slots on its result (lines 523-525).                      *)
(***************************************************************************)
\* the variables of the other specifications, at rest
NoCall == args = <<>> /\ ret = <<>>

NoFlow == booking = <<>> /\ store = <<>> /\ shown = <<>> /\ clock = <<>>

NoSlots ==
    /\ date_obj = 1 /\ dur_min = 0 /\ slot_step_min = SLOT_STEP_MIN
    /\ turnos_df = <<>> /\ now = <<>> /\ slots_all = <<>> /\ slots = <<>>

Init ==
    /\ date_obj \in Dates
    /\ \E r \in Requests : dur_min = r[1] /\ slot_step_min = r[2]
    /\ turnos_df \in SeqsUpTo(TurnoRows(date_obj), MaxTurnos)
    /\ now = <<>>
    /\ slots_all = <<>>
    /\ slots = <<>>
    /\ pc = "start"
    /\ NoCall
    /\ NoFlow

GenerarSlots ==
    /\ pc = "start"
    /\ \E r \in {generar_slots(date_obj, dur_min, turnos_df, slot_step_min)} :
          /\ slots_all' = r.value
          /\ pc' = IF r.raised THEN "raised" ELSE "generated"
    /\ UNCHANGED <<date_obj, dur_min, slot_step_min, turnos_df, now, slots>>
    /\ UNCHANGED <<callVars, flowVars>>

FilterFutureSlots ==
    /\ pc = "generated"
    /\ \E today \in {date_obj - 1, date_obj}, c \in NowClocks :
          LET n == [date |-> today, minute |-> c.minute, sub |-> c.sub]
          IN  /\ now' = <<n>>
              /\ slots' = filter_future_slots(date_obj, slots_all, n)
    /\ pc' = "filtered"
    /\ UNCHANGED <<date_obj, dur_min, slot_step_min, turnos_df, slots_all>>
    /\ UNCHANGED <<callVars, flowVars>>

Next == GenerarSlots \/ FilterFutureSlots

Spec == Init /\ [][Next]_vars

(***************************************************************************)
(* The overlap test of generar_slots on its own: one call with the         *)
(* candidate, the appointment and the buffer as arguments.                 *)
(***************************************************************************)
\* instants of the overlap test are 0..MaxInstant, buffers 0..MaxBuffer
MaxInstant == 6
MaxBuffer == 2
\* faulty variant: the buffer added on the start side only
buffered_overlaps_start_only(c_start, c_end, t_start, t_end, buff) ==
    overlaps(c_start - buff, c_end, t_start, t_end)

\* line 267: overlaps(c_start - buff, c_end + buff, t_start, t_end)
buffered_overlaps(c_start, c_end, t_start, t_end, buff) ==
    overlaps(c_start - buff, c_end + buff, t_start, t_end)

InitOverlapTest ==
    /\ NoSlots /\ NoFlow
    /\ pc = "start"
    /\ args \in [c_start : 0..MaxInstant, c_end : 0..MaxInstant,
                 t_start : 0..MaxInstant, t_end : 0..MaxInstant,
                 buff : 0..MaxBuffer]
    /\ ret = <<>>

OverlapTest ==
    /\ pc = "start"
    /\ ret' = buffered_overlaps(args.c_start, args.c_end,
                                args.t_start, args.t_end, args.buff)
    /\ pc' = "overlap_tested"
    /\ UNCHANGED <<slotVars, args, flowVars>>

NextOverlapTest == OverlapTest

SpecOverlapTest == InitOverlapTest /\ [][NextOverlapTest]_vars

(***************************************************************************)
(* The lookup of the weekly table on its own: one evaluation of            *)
(* DEFAULT_DISPONIBILIDAD_CODE.get(weekday, []) with an int as weekday.    *)
(***************************************************************************)
\* the weekdays looked up are -MaxKey..MaxKey
MaxKey == 60

\* line 226: dict.get with a default returns for every key
tramos_get(weekday) == Returned(tramos_of(weekday))

InitLookup ==
    /\ NoSlots /\ NoFlow
    /\ pc = "start"
    /\ args \in [weekday : (0 - MaxKey)..MaxKey]
    /\ ret = <<>>

Lookup ==
    /\ pc = "start"
    /\ ret' = tramos_get(args.weekday)
    /\ pc' = "looked_up"
    /\ UNCHANGED <<slotVars, args, flowVars>>

NextLookup == Lookup

SpecLookup == InitLookup /\ [][NextLookup]_vars

(***************************************************************************)
(* calc_duracion and calc_precio.  servicios_df is the sequence of the     *)
(* rows of the table servicios, zonas a list of str.                       *)
(***************************************************************************)
\* the table servicios holds at most MaxServicios rows
MaxServicios == 2

\* Series.isin(zonas)
isin(x, zonas) == \E i \in DOMAIN zonas : zonas[i] = x

\* lines 209 and 215: the rows with the tipo and a zona of zonas
sel_of(servicios_df, tipo, zonas) ==
    SelectSeq(servicios_df, LAMBDA r : r.tipo = tipo /\ isin(r.zona, zonas))

\* sel["duracion_min"].sum(): the rows added up from the first on
RECURSIVE sum_duracion_min(_)
sum_duracion_min(sel) ==
    IF sel = <<>> THEN 0
    ELSE sum_duracion_min(SubSeq(sel, 1, Len(sel) - 1))
             + sel[Len(sel)].duracion_min

\* sel["precio"].sum()
RECURSIVE sum_precio(_)
sum_precio(sel) ==
    IF sel = <<>> THEN 0
    ELSE sum_precio(SubSeq(sel, 1, Len(sel) - 1)) + sel[Len(sel)].precio

\* line 210 on the selected rows
duracion_of_sel(sel) == IF sel # <<>> THEN sum_duracion_min(sel) ELSE 0

\* line 216 on the selected rows
precio_of_sel(sel) == IF sel # <<>> THEN sum_precio(sel) ELSE 0
\* faulty variant: the zonas left out of the selection
calc_duracion_any_zona(servicios_df, tipo, zonas) ==
    IF servicios_df = <<>> THEN 0
    ELSE duracion_of_sel(SelectSeq(servicios_df, LAMBDA r : r.tipo = tipo))

calc_duracion(servicios_df, tipo, zonas) ==
    IF servicios_df = <<>> THEN 0
    ELSE duracion_of_sel(sel_of(servicios_df, tipo, zonas))

calc_precio(servicios_df, tipo, zonas) ==
    IF servicios_df = <<>> THEN 0
    ELSE precio_of_sel(sel_of(servicios_df, tipo, zonas))

\* a row of the table servicios
Servicio(tipo, zona, duracion_min, precio) ==
    [tipo |-> tipo, zona |-> zona, duracion_min |-> duracion_min,
     precio |-> precio]

\* the tipos the flow prefers (Laser stands for "Láser")
Tipos == {"Descartable", "Laser"}

Zonas == {"Cara", "Axilas"}

\* the rows a table servicios may hold: a duration and a price, among them 0
ServicioRows ==
    { Servicio(t, z, dp[1], dp[2]) :
        t \in Tipos, z \in Zonas, dp \in { <<0, 0>>, <<30, 1000>>, <<45, 2500>> } }

\* the lists of zonas of a call: empty, one zona, two zonas, a zona twice
ZonasLists ==
    { <<>>, <<"Cara">>, <<"Axilas">>, <<"Cara", "Axilas">>, <<"Cara", "Cara">> }

InitCalc ==
    /\ NoSlots /\ NoFlow
    /\ pc = "start"
    /\ args \in [servicios_df : SeqsUpTo(ServicioRows, MaxServicios),
                 tipo : Tipos, zonas : ZonasLists]
    /\ ret = <<>>

\* one call of calc_duracion and one of calc_precio on the same arguments
Calc ==
    /\ pc = "start"
    /\ ret' = [duracion |-> calc_duracion(args.servicios_df, args.tipo, args.zonas),
               precio |-> calc_precio(args.servicios_df, args.tipo, args.zonas)]
    /\ pc' = "calculated"
    /\ UNCHANGED <<slotVars, args, flowVars>>

NextCalc == Calc

SpecCalc == InitCalc /\ [][NextCalc]_vars

(***************************************************************************)
(* The last step of generar_slots on its own (lines 275-276): the list     *)
(* built by the loops is the argument, instants are 0..MaxInstant.         *)
(***************************************************************************)
\* the list has at most MaxResult elements
MaxResult == 4

InitUnique ==
    /\ NoSlots /\ NoFlow
    /\ pc = "start"
    /\ args \in [result : SeqsUpTo(0..MaxInstant, MaxResult)]
    /\ ret = <<>>

\* lines 275-276 on the list, and once more on their result
Unique ==
    /\ pc = "start"
    /\ ret' = [once |-> unique_in_order(args.result),
               twice |-> unique_in_order(unique_in_order(args.result))]
    /\ pc' = "unique"
    /\ UNCHANGED <<slotVars, args, flowVars>>

NextUnique == Unique

SpecUnique == InitUnique /\ [][NextUnique]_vars

(***************************************************************************)
(* The booking flow (lines 395-640).  Each action is one run of the        *)
(* script for one session: the block of the current step is rendered, the  *)
(* pressed button is handled, and after st.rerun() the block of the new    *)
(* step is rendered.  A session is a browser session with its own          *)
(* st.session_state; the table turnos is shared.  A row of the table keeps *)
(* its fecha as the date db_get_turnos reads back.                         *)
(***************************************************************************)
Sessions == {"a", "b"}

\* lines 292-304
defaults_booking_state ==
    [step |-> "pick_service", service_tipo |-> <<>>, service_zonas |-> <<>>,
     duracion |-> 0, precio_total |-> 0, fecha |-> <<>>, slot_dt |-> <<>>,
     nombre |-> <<>>, whatsapp |-> <<>>, email |-> <<>>, notas |-> <<>>]

\* the table servicios of the flow: a zona of 350 minutes and one of 0
FlowServicios ==
    << Servicio("Laser", "Cara", 350, 9000), Servicio("Laser", "Axilas", 0, 0) >>

\* the lists zonas_final a user can compose
FlowZonas == { <<>>, <<"Cara">>, <<"Axilas">>, <<"Cara", "Axilas">> }

\* date.today(): a Saturday
FlowToday == 6

\* the dates a user picks (min_value=date.today()): today and the Sunday
\* after it
FlowDates == {FlowToday, FlowToday + 1}

\* the readings of datetime.now(), in order: 08:00 and 09:05 of today
FlowClocks ==
    << [date |-> FlowToday, minute |-> 8 * 60, sub |-> 0],
       [date |-> FlowToday, minute |-> 9 * 60 + 5, sub |-> 0] >>

\* the texts typed as nombre and as whatsapp
Sana == <<"A", "n", "a">>

S549 == <<"+", "5", "4", "9">>

NombreTexts == { <<>>, <<" ">>, Sana }

WhatsappTexts == { <<>>, S549 }

DigitChars == <<"0", "1", "2", "3", "4", "5", "6", "7", "8", "9">>

\* "%02d"
two_digits(n) == <<DigitChars[(n \div 10) + 1], DigitChars[(n % 10) + 1]>>

\* datetime.strftime("%H:%M")
strftime_HM(dt) ==
    two_digits((dt % MinutesPerDay) \div 60) \o <<":">> \o two_digits(dt % 60)

\* lines 523-525: the slots of a rendering of the pick_time step
slots_shown(b, turnos, n) ==
    IF b.fecha = <<>> THEN <<>>
    ELSE filter_future_slots(
             b.fecha[1],
             generar_slots(b.fecha[1], b.duracion, turnos, SLOT_STEP_MIN).value,
             n)

\* line 529
opciones_of(slots_) == [i \in DOMAIN slots_ |-> strftime_HM(slots_[i])]

\* lines 530-531: the label at label_idx
default_label(opciones, slot_dt) ==
    IF slot_dt # <<>> /\ isin(strftime_HM(slot_dt[1]), opciones)
    THEN strftime_HM(slot_dt[1])
    ELSE opciones[1]

\* lines 532-537: the value of the selectbox, picked the label the user
\* chose in the list shown before this run (None when nothing was chosen)
sel_label_of(opciones, slot_dt, picked) ==
    IF picked # <<>> /\ isin(picked[1], opciones) THEN picked[1]
    ELSE default_label(opciones, slot_dt)

\* line 538
sel_dt_of(slots_, sel_label) ==
    SelectSeq(slots_, LAMBDA x : strftime_HM(x) = sel_label)[1]

\* lines 526-541: booking after the rendering of the slots
render_pick_time(b, slots_, picked) ==
    IF slots_ = <<>> THEN b
    ELSE [b EXCEPT !.slot_dt =
             <<sel_dt_of(slots_, sel_label_of(opciones_of(slots_), @, picked))>>]

\* lines 470-475
with_service(b, tipo, zonas_final) ==
    [b EXCEPT !.service_tipo = <<tipo>>,
              !.service_zonas = <<zonas_final>>,
              !.duracion = calc_duracion(FlowServicios, tipo, zonas_final),
              !.precio_total = calc_precio(FlowServicios, tipo, zonas_final),
              !.step = "pick_date"]

\* lines 506-507
with_fecha(b, fecha) == [b EXCEPT !.fecha = <<fecha>>, !.step = "pick_time"]

\* faulty variant: the WhatsApp not checked
rejected_without_whatsapp(nombre, whatsapp, b) ==
    Strip(nombre) = <<>> \/ b.slot_dt = <<>>

\* line 571
rejected(nombre, whatsapp, b) ==
    Strip(nombre) = <<>> \/ Strip(whatsapp) = <<>> \/ b.slot_dt = <<>>

\* faulty variant: fin taken from slot_dt without the duration
new_row_fin_is_inicio(b) ==
    [fecha |-> b.fecha[1],
     inicio |-> strftime_HM(b.slot_dt[1]),
     fin |-> strftime_HM(b.slot_dt[1]),
     tipo |-> b.service_tipo[1],
     duracion_total |-> b.duracion,
     estado |-> "Confirmado",
     recordatorio_enviado |-> FALSE]

\* lines 577-593
new_row(b) ==
    [fecha |-> b.fecha[1],
     inicio |-> strftime_HM(b.slot_dt[1]),
     fin |-> strftime_HM(b.slot_dt[1] + b.duracion),
     tipo |-> b.service_tipo[1],
     duracion_total |-> b.duracion,
     estado |-> "Confirmado",
     recordatorio_enviado |-> FALSE]

\* lines 596-600
with_client(b, nombre, whatsapp) ==
    [b EXCEPT !.nombre = Strip(nombre), !.whatsapp = Strip(whatsapp),
              !.email = <<>>, !.notas = <<>>, !.step = "confirm"]

\* line 545
to_pick_date(b) == [b EXCEPT !.step = "pick_date"]
\* faulty variant: the next step skipped
to_client_details_skipping(b) == [b EXCEPT !.step = "confirm"]

\* line 550
to_client_details(b) == [b EXCEPT !.step = "client_details"]

\* line 605
to_pick_time(b) == [b EXCEPT !.step = "pick_time"]

InitBooking ==
    /\ NoSlots /\ NoCall
    /\ pc = "flow"
    /\ booking = [s \in Sessions |-> defaults_booking_state]
    /\ store = <<>>
    /\ shown = [s \in Sessions |-> <<>>]
    /\ clock = 1

\* the booking with the step a handler has set
with_step(b, step) == [b EXCEPT !.step = step]

\* lines 512-541 in a run of session s whose booking is b: db_get_turnos,
\* the slots, the selectbox; then the handler of the run sets step_after
RenderPickTime(s, b, picked, step_after) ==
    /\ \E sl \in {slots_shown(b, store, FlowClocks[clock])} :
          /\ booking' = [booking EXCEPT
                            ![s] = with_step(render_pick_time(b, sl, picked),
                                             step_after)]
          /\ shown' = [shown EXCEPT ![s] = sl]
    /\ UNCHANGED <<store, clock, slotVars, pc, callVars>>

\* lines 345-347 and 357-360: back to the home view and into the flow again,
\* from any step
Reservar(s) ==
    /\ booking' = [booking EXCEPT ![s] = defaults_booking_state]
    /\ shown' = [shown EXCEPT ![s] = <<>>]
    /\ UNCHANGED <<store, clock, slotVars, pc, callVars>>

\* lines 467-477, with zonas_final not empty
PickServiceContinuar(s) ==
    /\ booking[s].step = "pick_service"
    /\ FlowServicios # <<>>
    /\ \E zonas_final \in FlowZonas \ {<<>>} :
          booking' = [booking EXCEPT ![s] = with_service(@, "Laser", zonas_final)]
    /\ UNCHANGED <<shown, store, clock, slotVars, pc, callVars>>

\* lines 495-498
PickDateCambiarZonas(s) ==
    /\ booking[s].step = "pick_date"
    /\ booking' = [booking EXCEPT ![s] = defaults_booking_state]
    /\ shown' = [shown EXCEPT ![s] = <<>>]
    /\ UNCHANGED <<store, clock, slotVars, pc, callVars>>

\* lines 502-509, then the rendering of pick_time
PickDateSiguiente(s) ==
    /\ booking[s].step = "pick_date"
    /\ \E fecha \in FlowDates :
          RenderPickTime(s, with_fecha(booking[s], fecha), <<>>, "pick_time")

\* lines 532-541: a run of pick_time, with or without a choice in the
\* selectbox shown before
PickTimeSelect(s) ==
    /\ booking[s].step = "pick_time"
    /\ \E picked \in {<<>>} \cup { <<strftime_HM(shown[s][i])>> : i \in DOMAIN shown[s] } :
          RenderPickTime(s, booking[s], picked, "pick_time")

\* lines 544-547
PickTimeVolver(s) ==
    /\ booking[s].step = "pick_time"
    /\ RenderPickTime(s, booking[s], <<>>, to_pick_date(booking[s]).step)

\* lines 548-552: the button is enabled when slot_dt is set
PickTimeSiguiente(s) ==
    /\ booking[s].step = "pick_time"
    /\ booking[s].slot_dt # <<>>
    /\ RenderPickTime(s, booking[s], <<>>, to_client_details(booking[s]).step)

\* lines 570-602: the form submitted; a rejected submission only warns
ClientSubmit(s) ==
    /\ booking[s].step = "client_details"
    /\ \E nombre \in NombreTexts, whatsapp \in WhatsappTexts :
          IF rejected(nombre, whatsapp, booking[s])
          THEN UNCHANGED <<booking, store>>
          ELSE /\ Len(store) < MaxTurnos
               /\ store' = Append(store, new_row(booking[s]))
               /\ booking' = [booking EXCEPT ![s] = with_client(@, nombre, whatsapp)]
    /\ UNCHANGED <<shown, clock, slotVars, pc, callVars>>

\* lines 604-607, then the rendering of pick_time
ClientVolver(s) ==
    /\ booking[s].step = "client_details"
    /\ RenderPickTime(s, to_pick_time(booking[s]), <<>>, "pick_time")

\* lines 637-639
ConfirmReservarOtro(s) ==
    /\ booking[s].step = "confirm"
    /\ booking' = [booking EXCEPT ![s] = defaults_booking_state]
    /\ shown' = [shown EXCEPT ![s] = <<>>]
    /\ UNCHANGED <<store, clock, slotVars, pc, callVars>>

\* time passes between two runs
Tick ==
    /\ clock < Len(FlowClocks)
    /\ clock' = clock + 1
    /\ UNCHANGED <<booking, store, shown, slotVars, pc, callVars>>

NextBooking ==
    \/ \E s \in Sessions :
          \/ Reservar(s)
          \/ PickServiceContinuar(s)
          \/ PickDateCambiarZonas(s)
          \/ PickDateSiguiente(s)
          \/ PickTimeSelect(s)
          \/ PickTimeVolver(s)
          \/ PickTimeSiguiente(s)
          \/ ClientSubmit(s)
          \/ ClientVolver(s)
          \/ ConfirmReservarOtro(s)
    \/ Tick

SpecBooking == InitBooking /\ [][NextBooking]_vars

(***************************************************************************)
(* The specified behaviour, stated without the code's tables and parsers:  *)
(* times are minutes of the day.                                           *)
(***************************************************************************)
Range(q) == { q[i] : i \in DOMAIN q }

\* the weekly business hours of the specification (1 = Monday .. 7 = Sunday)
SpecWindows(weekday) ==
    CASE weekday = 1 -> << <<9 * 60, 13 * 60>>, <<14 * 60, 17 * 60>> >>
      [] weekday \in {2, 3, 4} -> << <<9 * 60, 17 * 60>> >>
      [] weekday \in {5, 6} -> << <<9 * 60, 15 * 60>> >>
      [] OTHER -> <<>>

\* the weekday of an ordinal whose day 1 is a Monday
SpecWeekday(d) == ((d - 1) % 7) + 1

\* half-open intervals [a1, a2) and [b1, b2) overlap
SpecOverlap(a1, a2, b1, b2) == a1 < b2 /\ b1 < a2

\* the row has start and end times that parse
WellFormed(t) == strptime_HM(t.inicio) # <<>> /\ strptime_HM(t.fin) # <<>>

\* the row claims time on date d
Occupies(t, d) == t.fecha = d /\ t.estado # "Cancelado" /\ WellFormed(t)

\* the occupying intervals of date d, as pairs of minutes of the day
Occupying(turnos, d) ==
    { <<strptime_HM(turnos[j].inicio)[1], strptime_HM(turnos[j].fin)[1]>> :
        j \in { i \in DOMAIN turnos : Occupies(turnos[i], d) } }

\* the candidate [c, c + dur) clashes with an occupying interval widened by
\* 5 minutes on both ends
Clashes(c, dur, occ) ==
    \E o \in occ : SpecOverlap(c, c + dur, o[1] - 5, o[2] + 5)

\* minute of the day of a slot of the requested date
MinuteOf(s) == s - date_obj * MinutesPerDay

SlotMinutes == { MinuteOf(s) : s \in Range(slots_all) }

\* the candidates of a window w for a step and a duration
Candidates(w, step, dur) ==
    { c \in { w[1] + k * step : k \in 0..((w[2] - w[1]) \div step) } :
        c + dur <= w[2] }

\* the table with the status of row j changed
WithEstado(turnos, j, e) == [turnos EXCEPT ![j].estado = e]

\* the call of generar_slots of the current state on another table
SlotsFor(turnos) ==
    generar_slots(date_obj, dur_min, turnos, slot_step_min).value

(***************************************************************************)
(* Claims.                                                                 *)
(***************************************************************************)

\* C1: for a duration > 0, no slot s returned by generar_slots is such that
\* [s, s + duration) overlaps [start - 5, end + 5) of an appointment of the
\* date that is not Cancelado and whose times parse.
C1_NoOverlap ==
    (pc = "generated" /\ dur_min > 0) =>
        LET occ == Occupying(turnos_df, date_obj)
        IN  \A m \in SlotMinutes : ~Clashes(m, dur_min, occ)

\* a Tuesday, duration 30, step 10, a Confirmado appointment 10:00-10:30:
\* 09:20 and 10:40 are returned, 09:30 and 10:30 are not
C1_Witness ==
    /\ pc = "generated" /\ dur_min = 30 /\ slot_step_min = 10
    /\ SpecWeekday(date_obj) = 2
    /\ turnos_df = <<Turno(date_obj, S1000, S1030, "Confirmado")>>
    /\ {9 * 60 + 20, 10 * 60 + 40} \subseteq SlotMinutes
    /\ {9 * 60 + 30, 10 * 60 + 30} \cap SlotMinutes = {}

\* C2: for a duration > 0 the output is complete: in each window of the
\* weekday a candidate winStart + k * step with candidate + duration <= winEnd
\* is returned iff it clashes with no widened occupying interval, and nothing
\* else is returned; a Tuesday without appointments, step 10, duration 30,
\* gives exactly 09:00, 09:10, ..., 16:30.
C2_Complete ==
    (pc = "generated" /\ dur_min > 0) =>
        /\ LET occ == Occupying(turnos_df, date_obj)
               win == SpecWindows(SpecWeekday(date_obj))
           IN  SlotMinutes =
                   UNION { { c \in Candidates(win[k], slot_step_min, dur_min) :
                               ~Clashes(c, dur_min, occ) } :
                           k \in DOMAIN win }
        /\ (SpecWeekday(date_obj) = 2 /\ turnos_df = <<>>
              /\ slot_step_min = 10 /\ dur_min = 30)
           => slots_all = [i \in 1..46 |->
                              date_obj * MinutesPerDay + 9 * 60 + 10 * (i - 1)]

\* a Monday, duration 30, step 10, a No-show appointment 12:40-14:20: 12:00
\* and 14:30 are returned, 12:10 and 14:00 are not
C2_Witness ==
    /\ pc = "generated" /\ dur_min = 30 /\ slot_step_min = 10
    /\ SpecWeekday(date_obj) = 1
    /\ turnos_df = <<Turno(date_obj, S1240, S1420, "No-show")>>
    /\ {12 * 60, 14 * 60 + 30} \subseteq SlotMinutes
    /\ {12 * 60 + 10, 14 * 60} \cap SlotMinutes = {}

\* C3: changing only the status of one appointment from Confirmado to
\* Cancelado gives an output that contains every slot of the original
\* output, and a table whose only appointment is Cancelado gives the output
\* of the empty table.
C3_CancelOnlyAdds ==
    pc = "generated" =>
        /\ \A j \in DOMAIN turnos_df :
              turnos_df[j].estado = "Confirmado" =>
                  Range(slots_all) \subseteq
                      Range(SlotsFor(WithEstado(turnos_df, j, "Cancelado")))
        /\ (Len(turnos_df) = 1 /\ turnos_df[1].estado = "Cancelado")
           => slots_all = SlotsFor(<<>>)

\* cancelling a Confirmado appointment of the date adds slots
C3_Witness ==
    /\ pc = "generated" /\ slots_all # <<>>
    /\ \E j \in DOMAIN turnos_df :
          /\ turnos_df[j].estado = "Confirmado"
          /\ Len(SlotsFor(WithEstado(turnos_df, j, "Cancelado"))) > Len(slots_all)

\* C4: the sequence returned by generar_slots is strictly ascending (so it
\* has no duplicate).
C4_Ascending ==
    pc = "generated" =>
        \A i \in 1..(Len(slots_all) - 1) : slots_all[i] < slots_all[i + 1]

\* a Monday with slots in the morning window and in the afternoon window
C4_Witness ==
    /\ pc = "generated" /\ SpecWeekday(date_obj) = 1
    /\ \E m \in SlotMinutes : m < 13 * 60
    /\ \E m \in SlotMinutes : m >= 14 * 60

\* C5: when the date is the date of now, filter_future_slots returns exactly
\* the slots strictly after now, in order; when the date is later than today
\* it returns its input.  Instants are compared in half minutes: a slot s is
\* 2 * s, now is 2 * (its minute) + sub.
C5_FilterFuture ==
    pc = "filtered" =>
        /\ date_obj = now[1].date =>
              slots = SelectSeq(slots_all,
                         LAMBDA s : 2 * s > 2 * (now[1].date * MinutesPerDay
                                                 + now[1].minute) + now[1].sub)
        /\ date_obj > now[1].date => slots = slots_all

\* today, some slots dropped and some kept
C5_Witness ==
    /\ pc = "filtered" /\ date_obj = now[1].date
    /\ slots # <<>> /\ Len(slots) < Len(slots_all)

\* a table whose two windows are contiguous: 09:00-13:00 and 13:00-17:00
ContiguousTramos == << <<S0900, S1300>>, <<S1300, S1700>> >>

\* C6: every slot lies with its whole duration inside one window of the
\* weekday; a window shorter than the duration gives no slot; on a Monday no
\* slot occupies any part of 13:00-14:00; and with two contiguous windows
\* (09:00-13:00, 13:00-17:00) no slot spans 13:00.
C6_SingleWindow ==
    (pc = "generated" /\ dur_min > 0) =>
        /\ \A m \in SlotMinutes :
              \E k \in DOMAIN SpecWindows(SpecWeekday(date_obj)) :
                  /\ SpecWindows(SpecWeekday(date_obj))[k][1] <= m
                  /\ m + dur_min <= SpecWindows(SpecWeekday(date_obj))[k][2]
        /\ \A k \in DOMAIN SpecWindows(SpecWeekday(date_obj)) :
              LET w == SpecWindows(SpecWeekday(date_obj))[k]
              IN  w[2] - w[1] < dur_min =>
                      ~ \E m \in SlotMinutes : w[1] <= m /\ m < w[2]
        /\ SpecWeekday(date_obj) = 1 =>
              \A m \in SlotMinutes : m + dur_min <= 13 * 60 \/ m >= 14 * 60
        /\ \A s \in Range(slots_of_tramos(ContiguousTramos, date_obj, dur_min,
                                          turnos_df, slot_step_min).value) :
              /\ ~ (MinuteOf(s) < 13 * 60 /\ 13 * 60 < MinuteOf(s) + dur_min)
              /\ 9 * 60 <= MinuteOf(s) /\ MinuteOf(s) + dur_min <= 17 * 60

\* a Monday and a duration of 240: the morning window gives 09:00, the
\* afternoon window, shorter than the duration, gives nothing
C6_Witness ==
    /\ pc = "generated" /\ dur_min = 240 /\ SpecWeekday(date_obj) = 1
    /\ slots_all = <<date_obj * MinutesPerDay + 9 * 60>>

\* the rows of date d that are not Cancelado, all with status Confirmado
AsConfirmed(turnos, d) ==
    LET sel == SelectSeq(turnos, LAMBDA t : t.fecha = d /\ t.estado # "Cancelado")
    IN  [i \in DOMAIN sel |-> [sel[i] EXCEPT !.estado = "Confirmado"]]

\* C7: the output depends on the table only through the rows of the date
\* that are not Cancelado, whatever their status among Confirmado,
\* Reprogramado, No-show and Realizado (rows of another date and Cancelado
\* rows never change it), and each such row with well-formed times keeps
\* every slot off its widened interval.
C7_OccupyingRows ==
    pc = "generated" =>
        /\ slots_all = SlotsFor(AsConfirmed(turnos_df, date_obj))
        /\ \A j \in DOMAIN turnos_df :
              (dur_min > 0 /\ Occupies(turnos_df[j], date_obj)) =>
                  \A m \in SlotMinutes :
                      ~SpecOverlap(m, m + dur_min,
                                   strptime_HM(turnos_df[j].inicio)[1] - 5,
                                   strptime_HM(turnos_df[j].fin)[1] + 5)

\* a Tuesday, a Confirmado row of the next day and a No-show row 12:40-14:20
\* of the date: 10:00 is returned, 12:10 and 14:20 are not
C7_Witness ==
    /\ pc = "generated" /\ dur_min = 30 /\ slot_step_min = 10
    /\ SpecWeekday(date_obj) = 2
    /\ turnos_df = <<Turno(date_obj + 1, S1000, S1030, "Confirmado"),
                     Turno(date_obj, S1240, S1420, "No-show")>>
    /\ 10 * 60 \in SlotMinutes
    /\ {12 * 60 + 10, 14 * 60 + 20} \cap SlotMinutes = {}

\* C8: a row with a malformed start or end time is skipped: the call does
\* not raise, its output is the output for the table without the malformed
\* rows, and the well-formed rows of that table still block their slots.
C8_MalformedSkipped ==
    /\ pc # "raised"
    /\ pc = "generated" =>
          /\ slots_all = SlotsFor(SelectSeq(turnos_df, WellFormed))
          /\ (dur_min > 0 /\ \E j \in DOMAIN turnos_df : ~WellFormed(turnos_df[j]))
             => LET occ == Occupying(turnos_df, date_obj)
                IN  \A m \in SlotMinutes : ~Clashes(m, dur_min, occ)

\* a Tuesday, a row with the start "abc" before a Confirmado row
\* 10:00-10:30: 09:20 is returned, 09:30 is not
C8_Witness ==
    /\ pc = "generated" /\ dur_min = 30 /\ slot_step_min = 10
    /\ SpecWeekday(date_obj) = 2
    /\ turnos_df = <<Turno(date_obj, Sabc, S1030, "Confirmado"),
                     Turno(date_obj, S1000, S1030, "Confirmado")>>
    /\ 9 * 60 + 20 \in SlotMinutes
    /\ 9 * 60 + 30 \notin SlotMinutes

\* C9: on a date whose weekday has no window (Sunday) generar_slots returns
\* the empty list, for every duration and every table.
C9_ClosedDay ==
    (pc # "start" /\ SpecWindows(SpecWeekday(date_obj)) = <<>>) =>
        pc # "raised" /\ slots_all = <<>>

\* a Sunday, a positive duration and an appointment of that date
C9_Witness ==
    /\ pc = "generated" /\ SpecWeekday(date_obj) = 7 /\ dur_min > 0
    /\ \E j \in DOMAIN turnos_df : Occupies(turnos_df[j], date_obj)

\* C10: for a duration <= 0 generar_slots returns the empty list, as a
\* normal result, for every date and every table.
C10_DurationGuard ==
    (pc # "start" /\ dur_min <= 0) =>
        pc # "raised" /\ slots_all = <<>>

\* an open day, a negative duration and a table that is not empty
C10_Witness ==
    /\ pc = "generated" /\ dur_min < 0 /\ SpecWeekday(date_obj) = 2
    /\ turnos_df # <<>>

\* the state of the example: a Tuesday, step 10, duration 30 and one
\* Confirmado appointment 10:00-10:30, after generar_slots
TuesdayExample ==
    /\ pc = "generated" /\ SpecWeekday(date_obj) = 2
    /\ dur_min = 30 /\ slot_step_min = 10
    /\ turnos_df = <<Turno(date_obj, S1000, S1030, "Confirmado")>>

\* the candidates of the window 09:00-17:00 from minute a to minute b
TuesdayCandidates(a, b) ==
    { c \in Candidates(<<9 * 60, 17 * 60>>, 10, 30) : a <= c /\ c <= b }

\* C11 as stated: in the example 09:00..09:20 are returned, 09:30..10:20 are
\* not, and 10:30 and every later candidate are returned.
C11_AsStated ==
    TuesdayExample =>
        SlotMinutes = TuesdayCandidates(9 * 60, 9 * 60 + 20)
                          \cup TuesdayCandidates(10 * 60 + 30, 17 * 60)

\* C11 (amended): in the example 09:00..09:20 are returned, 09:30..10:30 are
\* not (10:30 starts inside the 5 minutes after the appointment), and 10:40
\* and every later candidate up to 16:30 are returned.
C11_TuesdayExample ==
    TuesdayExample =>
        /\ SlotMinutes = TuesdayCandidates(9 * 60, 9 * 60 + 20)
                             \cup TuesdayCandidates(10 * 60 + 40, 17 * 60)
        /\ Len(slots_all) = 3 + 36

\* the example has been computed
C11_Witness == TuesdayExample /\ 16 * 60 + 30 \in SlotMinutes

\* C12: the test of the code (the candidate widened by the buffer, against
\* the appointment) gives the result of the specified test (the candidate
\* against the appointment widened by the buffer) for every candidate,
\* appointment and buffer >= 0.
C12_SameTest ==
    pc = "overlap_tested" =>
        ret = SpecOverlap(args.c_start, args.c_end,
                          args.t_start - args.buff, args.t_end + args.buff)

\* a candidate that starts exactly where the widened appointment ends, and
\* is accepted
C12_Witness ==
    /\ pc = "overlap_tested" /\ args.buff > 0
    /\ args.t_start < args.t_end /\ args.c_start < args.c_end
    /\ args.c_start = args.t_end + args.buff
    /\ ret = FALSE

\* the windows of a table entry as pairs of minutes of the day
WindowMinutes(tramos) ==
    [k \in DOMAIN tramos |->
        <<to_time(tramos[k][1])[1], to_time(tramos[k][2])[1]>>]

Matching(catalog, tipo, zonas) ==
    { i \in DOMAIN catalog :
        catalog[i].tipo = tipo /\ catalog[i].zona \in Range(zonas) }

\* the sum of f over a finite set of indices
RECURSIVE SumOver(_, _)
SumOver(I, f) ==
    IF I = {} THEN 0
    ELSE LET i == CHOOSE j \in I : TRUE IN f[i] + SumOver(I \ {i}, f)

\* C14: the duration and the price are the sums of duracion_min and precio
\* over exactly the matching records of the catalog; without a matching
\* record, and so for an empty catalog, both are 0.
C14_Sums ==
    pc = "calculated" =>
        LET cat == args.servicios_df
            I == Matching(cat, args.tipo, args.zonas)
        IN  /\ ret.duracion = SumOver(I, [i \in DOMAIN cat |-> cat[i].duracion_min])
            /\ ret.precio = SumOver(I, [i \in DOMAIN cat |-> cat[i].precio])
            /\ I = {} => ret.duracion = 0 /\ ret.precio = 0

\* two matching records and the sums 75 and 3500
C14_Witness ==
    /\ pc = "calculated"
    /\ Cardinality(Matching(args.servicios_df, args.tipo, args.zonas)) = 2
    /\ Len(args.zonas) = 2
    /\ ret.duracion = 75 /\ ret.precio = 3500

\* the index of the first occurrence of x in the sequence q
FirstIndex(q, x) ==
    CHOOSE i \in DOMAIN q : q[i] = x /\ \A j \in 1..(i - 1) : q[j] # x

\* C15: the de-duplication keeps exactly the instants of the list, each
\* once, in the order of their first occurrences; a list without duplicates
\* is returned unchanged, and applying the step twice equals applying it
\* once.
C15_Dedup ==
    pc = "unique" =>
        /\ Range(ret.once) = Range(args.result)
        /\ \A i, j \in DOMAIN ret.once :
              i < j => /\ ret.once[i] # ret.once[j]
                       /\ FirstIndex(args.result, ret.once[i])
                              < FirstIndex(args.result, ret.once[j])
        /\ Cardinality(Range(args.result)) = Len(args.result)
              => ret.once = args.result
        /\ ret.twice = ret.once

\* a list with a repeated instant between two others: 2, 1, 2, 0 gives 2, 1, 0
C15_Witness ==
    /\ pc = "unique"
    /\ args.result = <<2, 1, 2, 0>>
    /\ ret.once = <<2, 1, 0>>

\* the calendar date of a datetime
DateOf(dt) == dt \div MinutesPerDay

\* C16: when an appointment has been inserted (the session is at confirm),
\* booking.slot_dt is a slot of booking.fecha: its date is booking.fecha and
\* it is one of the slots of the session's last rendering of pick_time.
C16_AsStated ==
    pc = "flow" =>
        \A s \in Sessions :
            booking[s].step = "confirm" =>
                /\ DateOf(booking[s].slot_dt[1]) = booking[s].fecha[1]
                /\ booking[s].slot_dt[1] \in Range(shown[s])

\* start and end of a row of the table, in minutes of the day
RowStart(r) == strptime_HM(r.inicio)[1]

RowEnd(r) == strptime_HM(r.fin)[1]

\* C17: whatever the interleaving of the two sessions, no two rows of the
\* table with the same date overlap after the buffer is added.
C17_AsStated ==
    pc = "flow" =>
        \A i, j \in DOMAIN store :
            (i < j /\ store[i].fecha = store[j].fecha) =>
                ~SpecOverlap(RowStart(store[i]), RowEnd(store[i]),
                             RowStart(store[j]) - BUFFER_MIN_DEFAULT,
                             RowEnd(store[j]) + BUFFER_MIN_DEFAULT)

\* the steps in their order
StepOrder ==
    <<"pick_service", "pick_date", "pick_time", "client_details", "confirm">>

StepIndex(step) == CHOOSE i \in DOMAIN StepOrder : StepOrder[i] = step

\* C18: every transition of a session keeps the step, moves it one step
\* forward or one step back, or resets the booking to its default values
\* (step pick_service); so confirm is entered from client_details only.
C18_StepOrder ==
    [][\A s \in Sessions :
          \/ StepIndex(booking'[s].step) - StepIndex(booking[s].step)
                 \in {0 - 1, 0, 1}
          \/ booking'[s] = defaults_booking_state]_vars

\* one session has gone through all the steps, the other has come back from
\* pick_time to pick_date
C18_Witness ==
    /\ pc = "flow"
    /\ booking["a"].step = "confirm"
    /\ booking["b"].step = "pick_date" /\ booking["b"].slot_dt # <<>>

\* the session moves from client_details to confirm in this transition
Confirms(s) ==
    booking[s].step = "client_details" /\ booking'[s].step = "confirm"

\* C19: the table changes only in a transition in which one session moves
\* from client_details to confirm; such a transition appends exactly one
\* row, and happens only with a name and a WhatsApp that are not empty and
\* with slot_dt set; otherwise (a rejected submission included) the table
\* is unchanged.
C19_InsertOnConfirm ==
    [][/\ store' # store =>
              \E s \in Sessions :
                  /\ Confirms(s)
                  /\ \A t \in Sessions \ {s} : booking'[t] = booking[t]
       /\ \A s \in Sessions :
              Confirms(s) =>
                  /\ Len(store') = Len(store) + 1
                  /\ SubSeq(store', 1, Len(store)) = store
                  /\ booking'[s].nombre # <<>>
                  /\ booking'[s].whatsapp # <<>>
                  /\ booking[s].slot_dt # <<>>
       /\ \A s \in Sessions :
              booking'[s].step = "confirm" =>
                  Confirms(s) \/ booking'[s] = booking[s]]_vars

\* one appointment inserted by a session now at confirm, the other session
\* still at client_details
C19_Witness ==
    /\ pc = "flow"
    /\ Len(store) = 1
    /\ booking["a"].step = "confirm"
    /\ booking["b"].step = "client_details"

\* C20: every row inserted by the flow has the status Confirmado, an end
\* equal to its start plus the booking's duration, and a start before its
\* end; a booking with a slot selected has a duration > 0.
C20_InsertedRows ==
    pc = "flow" =>
        /\ \A i \in DOMAIN store :
              /\ store[i].estado = "Confirmado"
              /\ WellFormed(store[i])
              /\ RowEnd(store[i]) = RowStart(store[i]) + store[i].duracion_total
              /\ RowStart(store[i]) < RowEnd(store[i])
        /\ \A s \in Sessions :
              booking[s].slot_dt # <<>> => booking[s].duracion > 0

\* a row 09:10-15:00 has been inserted
C20_Witness ==
    /\ pc = "flow"
    /\ \E i \in DOMAIN store :
          RowStart(store[i]) = 9 * 60 + 10 /\ RowEnd(store[i]) = 15 * 60

====
